---- MODULE Spec2Model ----
(***************************************************************************)
(* Model of nyaa-mission: the per-series timeline (Series, SeriesEntry),  *)
(* the Transmission and NyaaTorrent connectors as far as the series code  *)
(* depends on their answers, and the refresh/update run of NyaaMission.   *)
(*                                                                         *)
(* Text is modelled as a sequence of one-character strings.  The two      *)
(* placeholder texts "{variation}" and "{garbage}" that remain in a       *)
(* rendered query name are kept as single symbols of such a sequence:     *)
(* they are neither digits nor the letter v nor a literal of a template.  *)
(***************************************************************************)
EXTENDS Integers, Sequences, FiniteSets, TLC

\* ------------------------------------------------------------------------
\* Bounds of the model
\* ------------------------------------------------------------------------
MaxLocalFiles == 2      \* files listed in one series directory
MaxTorrents == 2        \* names in the Transmission torrent list
MaxCalls == 4          \* method calls made on one series by a free caller
MaxUpstream == 4        \* highest episode number the resolver may know
MaxNumber == 10         \* highest episode number formatted, 123 apart
MaxTurns == 6           \* turns of a probe loop that are followed

\* ------------------------------------------------------------------------
\* Text helpers
\* ------------------------------------------------------------------------
Digits == {"0", "1", "2", "3", "4", "5", "6", "7", "8", "9"}

DigitVal(c) ==
    CASE c = "0" -> 0 [] c = "1" -> 1 [] c = "2" -> 2 [] c = "3" -> 3
      [] c = "4" -> 4 [] c = "5" -> 5 [] c = "6" -> 6 [] c = "7" -> 7
      [] c = "8" -> 8 [] c = "9" -> 9

DigitChar(d) ==
    CASE d = 0 -> "0" [] d = 1 -> "1" [] d = 2 -> "2" [] d = 3 -> "3"
      [] d = 4 -> "4" [] d = 5 -> "5" [] d = 6 -> "6" [] d = 7 -> "7"
      [] d = 8 -> "8" [] d = 9 -> "9"

\* sequences over S of length at most n
SeqsUpTo(S, n) == UNION {[1..k -> S] : k \in 0..n}

SetMax(S) == CHOOSE x \in S : \A y \in S : y <= x

SetMin(S) == CHOOSE x \in S : \A y \in S : x <= y

\* variant: one less than the number written
int_less_one(t) ==
    LET value[k \in 0..Len(t)] ==
            IF k = 0 THEN 0 ELSE 10 * value[k - 1] + DigitVal(t[k])
    IN  value[Len(t)] - 1

\* int(text) for a text made of decimal digits
RECURSIVE int(_)
int(t) ==
    IF t = <<>> THEN 0
    ELSE 10 * int(SubSeq(t, 1, Len(t) - 1)) + DigitVal(t[Len(t)])

\* decimal digits of a natural number, no padding
RECURSIVE Decimal(_)
Decimal(n) ==
    IF n < 10 THEN <<DigitChar(n)>>
    ELSE Append(Decimal(n \div 10), DigitChar(n % 10))

RECURSIVE Repeat(_, _)
Repeat(c, k) == IF k <= 0 THEN <<>> ELSE <<c>> \o Repeat(c, k - 1)

\* variant: the fill is always a space
FormatNumber_spaces(number_format, n) ==
    LET width == int(number_format)
        body  == Decimal(n)
    IN  Repeat(" ", width - Len(body)) \o body

\* format(n, number_format + 'n'): an optional leading "0" asks for zero
\* fill (space fill otherwise), the rest is the minimum width
FormatNumber(number_format, n) ==
    LET zero  == number_format # <<>> /\ number_format[1] = "0"
        width == int(number_format)
        body  == Decimal(n)
    IN  Repeat(IF zero THEN "0" ELSE " ", width - Len(body)) \o body

\* ------------------------------------------------------------------------
\* Regular expressions built by the series code
\* ------------------------------------------------------------------------
RE_NUMBER == "(\\d+)"
RE_GARBAGE == ".*?"
RE_VARIATION == "(?:v\\d+)?"

NoMatch == [ok |-> FALSE, cap |-> <<>>]

\* length of the run of digits of s starting at pos
RECURSIVE DigitRun(_, _)
DigitRun(s, pos) ==
    IF pos <= Len(s) /\ s[pos] \in Digits THEN 1 + DigitRun(s, pos + 1) ELSE 0

\* backtracking match of the elements i.. of regex re against s at pos;
\* cap is the text of the capturing group of the preferred match
RECURSIVE MatchAt(_, _, _, _)
MatchAt(re, i, s, pos) ==
    IF i > Len(re) THEN [ok |-> TRUE, cap |-> <<>>]
    ELSE IF re[i] = RE_NUMBER THEN
        \* greedy: the longest run of digits the rest can follow
        LET ks == {k \in 1..DigitRun(s, pos) : MatchAt(re, i + 1, s, pos + k).ok}
        IN  IF ks = {} THEN NoMatch
            ELSE [ok |-> TRUE, cap |-> SubSeq(s, pos, pos + SetMax(ks) - 1)]
    ELSE IF re[i] = RE_VARIATION THEN
        \* optional and greedy: first with the tag, then without
        LET ks == IF pos <= Len(s) /\ s[pos] = "v"
                  THEN {k \in 1..DigitRun(s, pos + 1) :
                            MatchAt(re, i + 1, s, pos + 1 + k).ok}
                  ELSE {}
        IN  IF ks # {} THEN MatchAt(re, i + 1, s, pos + 1 + SetMax(ks))
            ELSE MatchAt(re, i + 1, s, pos)
    ELSE IF re[i] = RE_GARBAGE THEN
        \* non-greedy: the shortest filler the rest can follow
        LET ks == {k \in 0..(Len(s) - pos + 1) : MatchAt(re, i + 1, s, pos + k).ok}
        IN  IF ks = {} THEN NoMatch
            ELSE MatchAt(re, i + 1, s, pos + SetMin(ks))
    ELSE IF pos <= Len(s) /\ s[pos] = re[i] THEN MatchAt(re, i + 1, s, pos + 1)
    ELSE NoMatch

\* re.findall(re, s): the matches, leftmost first; only whether there is
\* one and the first one are used by the callers ( ...[0] )
findall(re, s) ==
    LET starts == {p \in 1..(Len(s) + 1) : MatchAt(re, 1, s, p).ok}
    IN  IF starts = {} THEN <<>>
        ELSE <<MatchAt(re, 1, s, SetMin(starts)).cap>>

\* glob / fnmatch of a name against a pattern of literals and "*"
RECURSIVE GlobMatch(_, _)
GlobMatch(pat, name) ==
    IF pat = <<>> THEN name = <<>>
    ELSE IF Head(pat) = "*" THEN
        \E k \in 0..Len(name) : GlobMatch(Tail(pat), SubSeq(name, k + 1, Len(name)))
    ELSE name # <<>> /\ Head(name) = Head(pat) /\ GlobMatch(Tail(pat), Tail(name))

\* ------------------------------------------------------------------------
\* Configuration: the series of series.ini, in file order
\* ------------------------------------------------------------------------
SeriesList == <<"s1", "s2">>

SeriesNames == {SeriesList[i] : i \in 1..Len(SeriesList)}

\* the 'pattern' option of each series
pattern(s) ==
    IF s = "s1" THEN <<"A", "{number}", "{garbage}", ".">>
    ELSE <<"B", "{number}", "{garbage}", ".">>

\* the 'number_format' option (default)
number_format(s) == <<"0", "2">>

\* os.path.join(directory_local_prefix, name), kept as one symbol
directory_local(s) == <<s \o "/">>

directory_server(s) == <<s \o "/">>

\* pattern.format(number='{number}{variation}', garbage='{garbage}')
RECURSIVE ExpandNumber(_)
ExpandNumber(p) ==
    IF p = <<>> THEN <<>>
    ELSE IF Head(p) = "{number}"
         THEN <<"{number}", "{variation}">> \o ExpandNumber(Tail(p))
         ELSE <<Head(p)>> \o ExpandNumber(Tail(p))

file_pattern(s) == ExpandNumber(pattern(s))

\* same text, the number field carrying number_format
file_pattern_format(s) == ExpandNumber(pattern(s))

\* variant: the variation field is left as it is
regex_number_keeping_variation(p) ==
    [i \in 1..Len(p) |->
        IF p[i] = "{number}" THEN RE_NUMBER
        ELSE IF p[i] = "{garbage}" THEN RE_GARBAGE
        ELSE p[i]]

\* re.escape(p).replace(number).replace(garbage).replace(variation)
regex_number(p) ==
    [i \in 1..Len(p) |->
        IF p[i] = "{number}" THEN RE_NUMBER
        ELSE IF p[i] = "{garbage}" THEN RE_GARBAGE
        ELSE IF p[i] = "{variation}" THEN RE_VARIATION
        ELSE p[i]]

\* p.replace('[', '[[]').format(number='*', garbage='*', variation='*'):
\* every literal, "[" included, stands for itself in GlobMatch
pattern_safe(p) ==
    [i \in 1..Len(p) |->
        IF p[i] \in {"{number}", "{garbage}", "{variation}"} THEN "*" ELSE p[i]]

\* file_pattern_format.format(number=n, variation='{variation}',
\*                            garbage='{garbage}')
RECURSIVE FormatName(_, _, _)
FormatName(p, fmt, n) ==
    IF p = <<>> THEN <<>>
    ELSE IF Head(p) = "{number}"
         THEN FormatNumber(fmt, n) \o FormatName(Tail(p), fmt, n)
         ELSE <<Head(p)>> \o FormatName(Tail(p), fmt, n)

\* ------------------------------------------------------------------------
\* SeriesEntry and Series
\* ------------------------------------------------------------------------
SeriesEntry(number, file_name, downloaded, downloading, tid) ==
    [number |-> number, file_name |-> file_name, downloaded |-> downloaded,
     downloading |-> downloading, tid |-> tid]

\* variant: the membership test is dropped and every entry is appended
NotIn_always(e, ents) == TRUE

\* SeriesEntry.__eq__ under 'new_entry not in self.entries'
NotIn(e, ents) == \A i \in 1..Len(ents) : ents[i].file_name # e.file_name

\* variant: the number of entries instead of the highest number
max_number_counting(ents) == Len(ents)

max_number(ents) ==
    IF ents # <<>> THEN SetMax({ents[i].number : i \in 1..Len(ents)}) ELSE 0

A01 == <<"A", "0", "1", ".">>
A02 == <<"A", "0", "2", ".">>
A03 == <<"A", "0", "3", ".">>
Ax == <<"A", "x", ".">>
B00 == <<"B", "0", "0", ".">>
B01 == <<"B", "0", "1", ".">>
zz == <<"z", "z">>

\* names a series directory may hold
LocalNames(s) == IF s = "s1" THEN {A01, A03, Ax} ELSE {B00, zz}

\* names the Transmission server may list; the names of one series are
\* unrelated torrents for the other
TorrentNames == {A01, A02, B01}

NoDuplicates(q) == \A i, j \in 1..Len(q) : i # j => q[i] # q[j]

\* what re.findall(regex_number, file_path) returns for each path of a
\* series directory
found_in_directory ==
    [s \in SeriesNames |->
        [f \in LocalNames(s) |->
            findall(regex_number(directory_local(s) \o file_pattern(s)),
                    directory_local(s) \o f)]]

\* what re.findall(regex_number, torrent) returns for each torrent name
found_in_torrents ==
    [s \in SeriesNames |->
        [f \in TorrentNames |-> findall(regex_number(file_pattern(s)), f)]]

\* the loop of set_entries_from_directory over the globbed paths; a path
\* the regular expression does not match raises IndexError out of the loop
RECURSIVE DirectoryLoop(_, _, _)
DirectoryLoop(s, files, ents) ==
    IF files = <<>> THEN [entries |-> ents, err |-> ""]
    ELSE LET found == found_in_directory[s][Head(files)]
         IN  IF found = <<>> THEN [entries |-> ents, err |-> "IndexError"]
             ELSE LET new_entry == SeriesEntry(int(found[1]), Head(files),
                                               TRUE, FALSE, "")
                  IN  DirectoryLoop(s, Tail(files),
                          IF NotIn(new_entry, ents) THEN Append(ents, new_entry)
                          ELSE ents)

\* glob.glob(pattern_safe) over the directory listing
Glob(s, listing) ==
    SelectSeq(listing, LAMBDA f : GlobMatch(pattern_safe(file_pattern(s)), f))

\* Series.set_entries_from_directory; isdir and listing are the state of
\* the local disk
set_entries_from_directory(s, ents, isdir, listing) ==
    IF ~isdir THEN [entries |-> ents, err |-> "SeriesError"]
    ELSE DirectoryLoop(s, Glob(s, listing), ents)

\* variant: a name already present has its entry replaced by the queued one
RECURSIVE TransmissionLoop_replacing(_, _, _)
TransmissionLoop_replacing(s, names, ents) ==
    IF names = <<>> THEN ents
    ELSE LET found == found_in_torrents[s][Head(names)]
         IN  IF found = <<>> THEN TransmissionLoop_replacing(s, Tail(names), ents)
             ELSE LET new_entry == SeriesEntry(int(found[1]), Head(names),
                                               FALSE, TRUE, "")
                  IN  TransmissionLoop_replacing(s, Tail(names),
                          IF NotIn(new_entry, ents) THEN Append(ents, new_entry)
                          ELSE [i \in 1..Len(ents) |->
                                   IF ents[i].file_name = new_entry.file_name
                                   THEN new_entry ELSE ents[i]])

\* variant: the loop ends at the first name that does not match
RECURSIVE TransmissionLoop_breaking(_, _, _)
TransmissionLoop_breaking(s, names, ents) ==
    IF names = <<>> THEN ents
    ELSE LET found == found_in_torrents[s][Head(names)]
         IN  IF found = <<>> THEN ents
             ELSE LET new_entry == SeriesEntry(int(found[1]), Head(names),
                                               FALSE, TRUE, "")
                  IN  TransmissionLoop_breaking(s, Tail(names),
                          IF NotIn(new_entry, ents) THEN Append(ents, new_entry)
                          ELSE ents)

\* the loop of set_entries_from_transmission; a name that does not match
\* is passed over
RECURSIVE TransmissionLoop(_, _, _)
TransmissionLoop(s, names, ents) ==
    IF names = <<>> THEN ents
    ELSE LET found == found_in_torrents[s][Head(names)]
         IN  IF found = <<>> THEN TransmissionLoop(s, Tail(names), ents)
             ELSE LET new_entry == SeriesEntry(int(found[1]), Head(names),
                                               FALSE, TRUE, "")
                  IN  TransmissionLoop(s, Tail(names),
                          IF NotIn(new_entry, ents) THEN Append(ents, new_entry)
                          ELSE ents)

\* variant: the list is rebuilt from the torrents instead of appended to
set_entries_from_transmission_rebuilding(s, ents, t) ==
    IF t.none \/ t.names = <<>> THEN ents
    ELSE TransmissionLoop(s, t.names, <<>>)

\* Series.set_entries_from_transmission; t is what get_all_torrents returned
set_entries_from_transmission(s, ents, t) ==
    IF t.none \/ t.names = <<>> THEN ents
    ELSE TransmissionLoop(s, t.names, ents)

\* NyaaConnector.get_id_from_url as the probe sees it: r is the state of
\* the site, r.ok whether the request succeeds and r.ids the episode numbers
\* a search finds; the result is "" (nothing found) or the torrent id
get_id_from_url(r, number) ==
    IF number \in r.ids THEN "t" \o ToString(number) ELSE ""

\* variant: the loop goes on whatever max_ahead
condition_fun_always(ahead, i) == TRUE

\* variant: one more turn than max_ahead
condition_fun_inclusive(ahead, i) == IF ahead <= 0 THEN TRUE ELSE i <= ahead

\* condition_fun: always loop if max_ahead is null or negative, loop up to
\* max_ahead otherwise
condition_fun(ahead, i) == IF ahead <= 0 THEN TRUE ELSE i < ahead

\* variant: the candidates start at the highest known number
RECURSIVE ProbeLoop_from_max(_, _, _, _, _, _, _)
ProbeLoop_from_max(s, ents, old_max_number, i, ahead, r, queries) ==
    IF ~condition_fun(ahead, i)
    THEN [entries |-> ents, queries |-> queries, err |-> ""]
    ELSE LET number == old_max_number + i
             name == FormatName(file_pattern_format(s), number_format(s), number)
             asked == Append(queries,
                             [number |-> number, ok |-> r.ok,
                              tid |-> IF r.ok THEN get_id_from_url(r, number)
                                      ELSE ""])
         IN  IF ~r.ok
             THEN [entries |-> ents, queries |-> asked,
                   err |-> "NyaaConnectorError"]
             ELSE IF get_id_from_url(r, number) = ""
             THEN [entries |-> ents, queries |-> asked, err |-> ""]
             ELSE ProbeLoop_from_max(s,
                      Append(ents, SeriesEntry(number, name, FALSE, FALSE,
                                               get_id_from_url(r, number))),
                      old_max_number, i + 1, ahead, r, asked)

\* variant: a request that fails counts as a search that finds nothing
RECURSIVE ProbeLoop_failure_as_miss(_, _, _, _, _, _, _)
ProbeLoop_failure_as_miss(s, ents, old_max_number, i, ahead, r, queries) ==
    IF ~condition_fun(ahead, i)
    THEN [entries |-> ents, queries |-> queries, err |-> ""]
    ELSE LET number == old_max_number + i + 1
             name == FormatName(file_pattern_format(s), number_format(s), number)
             tid == IF r.ok THEN get_id_from_url(r, number) ELSE ""
             asked == Append(queries,
                             [number |-> number, ok |-> r.ok, tid |-> tid])
         IN  IF tid = ""
             THEN [entries |-> ents, queries |-> asked, err |-> ""]
             ELSE ProbeLoop_failure_as_miss(s,
                      Append(ents, SeriesEntry(number, name, FALSE, FALSE, tid)),
                      old_max_number, i + 1, ahead, r, asked)

\* the while loop of set_new_entries_from_nyaa; queries lists the numbers
\* asked to the resolver, each with whether the request succeeded and the
\* id it returned ("" for none, and for the request that raised)
RECURSIVE ProbeLoop(_, _, _, _, _, _, _)
ProbeLoop(s, ents, old_max_number, i, ahead, r, queries) ==
    IF ~condition_fun(ahead, i)
    THEN [entries |-> ents, queries |-> queries, err |-> ""]
    ELSE LET number == old_max_number + i + 1
             name == FormatName(file_pattern_format(s), number_format(s), number)
             asked == Append(queries,
                             [number |-> number, ok |-> r.ok,
                              tid |-> IF r.ok THEN get_id_from_url(r, number)
                                      ELSE ""])
         IN  IF ~r.ok
             THEN [entries |-> ents, queries |-> asked,
                   err |-> "NyaaConnectorError"]
             ELSE IF get_id_from_url(r, number) = ""
             THEN [entries |-> ents, queries |-> asked, err |-> ""]
             ELSE ProbeLoop(s,
                      Append(ents, SeriesEntry(number, name, FALSE, FALSE,
                                               get_id_from_url(r, number))),
                      old_max_number, i + 1, ahead, r, asked)

\* Series.set_new_entries_from_nyaa
set_new_entries_from_nyaa(s, ents, ahead, r) ==
    ProbeLoop(s, ents, max_number(ents), 0, ahead, r, <<>>)

\* Python's None: the result of a function that returns nothing, and of
\* get_all_torrents when the server lists no torrent
None == [none |-> TRUE, names |-> <<>>]

\* answers of the Transmission server to a torrent-add request
Answers == {"added", "rejected", "error"}

\* variant: only the downloaded flag is looked at
is_new_ignoring_downloading(e) == ~e.downloaded

\* variant: only the downloading flag is looked at
is_new_ignoring_downloaded(e) == ~e.downloading

\* 'not (entry.downloaded or entry.downloading)'
is_new(e) == ~(e.downloaded \/ e.downloading)

\* variant: a response that is not ok is not looked at
add_torrent_never_raises(answer) == FALSE

\* TransmissionConnector.add_torrent raises on a response that is not ok
add_torrent_raises(answer) == answer = "error"

\* variant: every response that is ok counts as an acceptance
add_torrent_always(answer) == TRUE

\* TransmissionConnector.add_torrent returns True only for 'torrent-added'
add_torrent(answer) == answer = "added"

\* variant: a dry run marks nothing
downloading_dry_false(dry, answer) == IF ~dry THEN add_torrent(answer) ELSE FALSE

\* the value of 'downloading' in download_new_entries
downloading(dry, answer) == IF ~dry THEN add_torrent(answer) ELSE TRUE

\* the loop of download_new_entries from entry i on; requests lists the
\* torrent-add requests sent so far, answers[k] is the server's answer to
\* the k-th one; the method has no return statement
RECURSIVE DownloadLoop(_, _, _, _, _, _)
DownloadLoop(s, ents, i, dry, answers, requests) ==
    IF i > Len(ents)
    THEN [entries |-> ents, requests |-> requests, err |-> "",
          returned |-> None]
    ELSE IF is_new(ents[i])
    THEN LET sent == IF ~dry
                     THEN Append(requests,
                              [directory |-> directory_server(s),
                               tid |-> ents[i].tid, number |-> ents[i].number])
                     ELSE requests
             answer == IF ~dry THEN answers[Len(sent)] ELSE "unasked"
         IN  IF ~dry /\ add_torrent_raises(answer)
             THEN [entries |-> ents, requests |-> sent,
                   err |-> "TransmissionConnectorError", returned |-> None]
             ELSE IF downloading(dry, answer)
             THEN DownloadLoop(s, [ents EXCEPT ![i].downloading = TRUE],
                               i + 1, dry, answers, sent)
             ELSE DownloadLoop(s, ents, i + 1, dry, answers, sent)
    ELSE DownloadLoop(s, ents, i + 1, dry, answers, requests)

\* Series.download_new_entries
download_new_entries(s, ents, dry, answers) ==
    DownloadLoop(s, ents, 1, dry, answers, <<>>)

\* indices of the entries download_new_entries has to send
Pending(ents) == {i \in 1..Len(ents) : is_new(ents[i])}

\* the answers the server may give during one download_new_entries: one per
\* request sent, the last request being the one answered by an error if any
AnswerSeqs(ents, dry) ==
    LET n == IF dry THEN 0 ELSE Cardinality(Pending(ents))
    IN  {a \in SeqsUpTo(Answers, n) :
            /\ \A k \in 1..(Len(a) - 1) : a[k] # "error"
            /\ Len(a) < n => a # <<>> /\ a[Len(a)] = "error"}

\* ------------------------------------------------------------------------
\* Environment: what the disk, the Transmission server and the site hold
\* ------------------------------------------------------------------------
\* directory listings, in the order the disk returns them
Listings(s) == {q \in SeqsUpTo(LocalNames(s), MaxLocalFiles) : NoDuplicates(q)}

\* states of a series directory: absent, or present with a listing
Disks(s) ==
    {[isdir |-> FALSE, listing |-> <<>>]}
        \cup {[isdir |-> TRUE, listing |-> q] : q \in Listings(s)}


\* results of get_all_torrents: None for an empty list
TorrentLists ==
    {None} \cup {[none |-> FALSE, names |-> q] :
                    q \in SeqsUpTo(TorrentNames, MaxTorrents) \ {<<>>}}

\* states of the NyaaTorrent site
Resolvers ==
    {[ok |-> FALSE, ids |-> {}]} \cup [ok : {TRUE}, ids : SUBSET (1..MaxUpstream)]

\* values of max_ahead after Series.__init__ ('all' is -1)
MaxAheadValues == {-1, 0, 1, 2}

\* ------------------------------------------------------------------------
\* TransmissionConnector
\* ------------------------------------------------------------------------
\* self.token is None
NoToken == ""

\* the token found in the body of a 409 response
Token == "X-Transmission-Session-Id"

\* what the server answers to the GET of set_token: a status, and for 409
\* whether the body holds a token
Statuses == {"200", "409 token", "409", "401", "500"}

\* set_token: returns on an ok response, sets the token on a 409 response
\* that holds one, raises otherwise
set_token(held, response) ==
    IF response = "200"
    THEN [token |-> held, err |-> "", message |-> ""]
    ELSE IF response = "409 token"
    THEN [token |-> Token, err |-> "", message |-> ""]
    ELSE IF response = "401"
    THEN [token |-> held, err |-> "TransmissionConnectorError",
          message |-> "wrong login or password"]
    ELSE [token |-> held, err |-> "TransmissionConnectorError",
          message |-> "Unable to connect to Transmission server"]

\* outcome of a connector method: the exception raised if any, whether a
\* request was posted to the server, and what was returned
Done ==
    [err |-> "", message |-> "", posted |-> TRUE, added |-> FALSE,
     torrents |-> None]

\* variant: the decorated function is called whatever the token
token_required_absent(held, result) == result

\* the decorator token_required: 'call' raises before the decorated
\* function is entered when self.token is None
token_required(held, result) ==
    IF held = NoToken
    THEN [Done EXCEPT !.err = "TransmissionConnectorError",
                      !.message = "No connection established",
                      !.posted = FALSE]
    ELSE result

\* the body of add_torrent for an answer of the server
add_torrent_body(answer) ==
    IF add_torrent_raises(answer)
    THEN [Done EXCEPT !.err = "TransmissionConnectorError",
                      !.message = "Unable to add torrent"]
    ELSE [Done EXCEPT !.added = add_torrent(answer)]

\* the body of get_all_torrents for an answer of the server: list is the
\* list of names it holds when the response is ok
get_all_torrents_body(ok, list) ==
    IF ~ok
    THEN [Done EXCEPT !.err = "TransmissionConnectorError",
                      !.message = "Unable to get torrents"]
    ELSE [Done EXCEPT !.torrents = list]

\* a call: the method, its arguments, the token held when it was made and
\* its outcome
NoCall ==
    [method |-> "", directory |-> <<>>, torrent_url |-> "", token |-> NoToken,
     err |-> "", message |-> "", posted |-> FALSE, added |-> FALSE,
     torrents |-> None]

Called(method, directory, torrent_url, held, result) ==
    [method |-> method, directory |-> directory, torrent_url |-> torrent_url,
     token |-> held, err |-> result.err, message |-> result.message,
     posted |-> result.posted, added |-> result.added,
     torrents |-> result.torrents]

\* no probe is under way
NoSite == [ok |-> TRUE, ids |-> {}, every |-> FALSE]

\* states of the NyaaTorrent site for a probe taken alone: those of
\* Resolvers, and a site that finds a torrent for every number
Sites ==
    {[ok |-> r.ok, ids |-> r.ids, every |-> FALSE] : r \in Resolvers}
        \cup {[ok |-> TRUE, ids |-> {}, every |-> TRUE]}

\* get_id_from_url on such a site
get_id(s, number) ==
    IF s.every THEN "t" \o ToString(number) ELSE get_id_from_url(s, number)

\* ------------------------------------------------------------------------
\* Construction of a Series and the texts it builds
\* ------------------------------------------------------------------------
ALL == <<"a", "l", "l">>

\* int(text) of Python for a text of an optional sign and digits; ok is
\* FALSE where int raises ValueError
IntOrValueError(t) ==
    LET signed == t # <<>> /\ t[1] \in {"-", "+"}
        digits == IF signed THEN Tail(t) ELSE t
    IN  IF digits = <<>> \/ \E i \in 1..Len(digits) : digits[i] \notin Digits
        THEN [ok |-> FALSE, value |-> 0]
        ELSE [ok |-> TRUE,
              value |-> IF signed /\ t[1] = "-" THEN 0 - int(digits)
                        ELSE int(digits)]

NotMade ==
    [err |-> "", file_pattern |-> <<>>, file_pattern_format |-> <<>>,
     number_format |-> <<>>, max_ahead |-> 0]

\* Series.__init__: the two patterns, then max_ahead.  Nothing looks for
\* '{number}' in the pattern.  When int(max_ahead) raises ValueError the
\* except clause names 'ValeError', which is not defined: NameError.
Series_init(p, fmt, ahead) ==
    LET k == IF ahead = ALL THEN [ok |-> TRUE, value |-> 0 - 1]
             ELSE IntOrValueError(ahead)
    IN  IF ~k.ok THEN [NotMade EXCEPT !.err = "NameError"]
        ELSE [err |-> "", file_pattern |-> ExpandNumber(p),
              file_pattern_format |-> ExpandNumber(p),
              number_format |-> fmt, max_ahead |-> k.value]

\* str.format on a pattern with the number field carrying fmt, for any
\* variation and garbage texts
RECURSIVE format(_, _, _, _, _)
format(p, fmt, n, variation, garbage) ==
    IF p = <<>> THEN <<>>
    ELSE (IF Head(p) = "{number}" THEN FormatNumber(fmt, n)
          ELSE IF Head(p) = "{variation}" THEN variation
          ELSE IF Head(p) = "{garbage}" THEN garbage
          ELSE <<Head(p)>>) \o format(Tail(p), fmt, n, variation, garbage)

NotExtracted == [err |-> "", number |-> 0]

\* 'number = int(re.findall(regex_number, torrent)[0])': IndexError
\* when nothing matches; without '{number}' the expression has no group,
\* findall gives the whole match and int raises ValueError on it
extract(p, text) ==
    LET found == findall(regex_number(p), text)
    IN  IF found = <<>> THEN [NotExtracted EXCEPT !.err = "IndexError"]
        ELSE IF \A i \in 1..Len(p) : p[i] # "{number}"
        THEN [NotExtracted EXCEPT !.err = "ValueError"]
        ELSE [err |-> "", number |-> int(found[1])]

\* patterns of series.ini: literals, '{number}' and '{garbage}' fields
Templates ==
    {<<"A", "{number}", ".">>,
     <<"A", "{number}", "{garbage}", ".">>,
     <<"{garbage}", "{number}", ".">>,
     <<"{garbage}", "A", "{number}", "{garbage}">>,
     <<"A", "{garbage}", ".">>}

\* 'number_format' options
NumberFormats == {<<"0", "2">>, <<"2">>, <<"0", "1">>, <<"0", "3">>}

\* 'max_ahead' options
MaxAheadOptions == {ALL, <<"5">>, <<"-", "1">>, <<"x">>, <<>>}

\* episode numbers
Numbers == (0..MaxNumber) \cup {123}

\* what release names put after the number and in place of the filler
Variations == {<<>>, <<"v", "2">>, <<"b", "2">>}

Garbages == {<<>>, <<"x">>, <<"1">>, <<"v">>}

\* variant: the count reported is the highest number itself
new_amount_absolute(new_max, old) == new_max

\* 'amount = new_max - old_max' in NyaaMission.update
new_amount(new_max, old) == new_max - old

\* ------------------------------------------------------------------------
\* State
\* ------------------------------------------------------------------------
VARIABLES
    entries,                \* Series.entries of each series
    max_ahead,              \* Series.max_ahead of each series
    dry_run,                \* NyaaMission.dry_run
    skip_directory_check,   \* NyaaMission.skip_directory_check
    torrents,               \* the local 'torrents' of NyaaMission.refresh
    pc,                     \* the statement the run is at
    idx,                    \* position of the run's loop in SeriesList
    err,                    \* the exception that ended the last call, or ""
    files,                  \* paths globbed by the last directory scan
    queries,                \* the site's answers during the last probe
    requests,               \* torrent-add requests sent by the last download
    answers,                \* the server's answers to those requests
    ncalls,                 \* number of method calls made by a free caller
    old_max,                \* the local 'old_max' of NyaaMission.update
    amount,                 \* the local 'amount' of NyaaMission.update
    returned,               \* what the last download_new_entries returned
    stages,                 \* the Series methods the run called, per series
    options,                \* the options a Series is constructed from
    made,                   \* what Series.__init__ made of them
    sample,                 \* an episode: number, variation tag, filler
    query,                  \* the name set_new_entries_from_nyaa searches
    extracted,              \* the number read from the episode's file name
    token,                  \* TransmissionConnector.token
    call,                   \* the last call made on a connector taken alone
    site,                   \* what NyaaTorrent answers to a probe taken alone
    turn                    \* the local 'i' of set_new_entries_from_nyaa

vars == <<entries, max_ahead, dry_run, skip_directory_check, torrents, pc, idx,
          err, files, queries, requests, answers, ncalls, old_max, amount,
          returned, stages, options, made, sample, query, extracted, token,
          call, site, turn>>

config == <<max_ahead, dry_run, skip_directory_check>>

\* the locals of NyaaMission.update
locals == <<old_max, amount, returned>>

\* a Series taken alone and the texts it builds
texts == <<options, made, sample, query, extracted>>

\* a TransmissionConnector taken alone
connector == <<token, call>>

\* a probe taken alone, one turn of its loop at a time
prober == <<site, turn>>

\* the run and the free calls work on the series of SeriesList
NoTexts ==
    /\ options = [pattern |-> <<>>, number_format |-> <<>>, max_ahead |-> <<>>]
    /\ made = NotMade
    /\ sample = [number |-> 0, variation |-> <<>>, garbage |-> <<>>]
    /\ query = <<>>
    /\ extracted = NotExtracted

Constructed(start) ==
    /\ entries = [s \in SeriesNames |-> <<>>]
    /\ max_ahead \in {f \in [SeriesNames -> MaxAheadValues \cup {5}] :
                        /\ f["s1"] \in MaxAheadValues
                        /\ \A s \in SeriesNames : s # "s1" => f[s] = 5}
    /\ dry_run \in BOOLEAN
    /\ skip_directory_check \in BOOLEAN
    /\ torrents = None
    /\ pc = start
    /\ err = ""
    /\ files = <<>>
    /\ queries = <<>>
    /\ requests = <<>>
    /\ answers = <<>>
    /\ ncalls = 0
    /\ old_max = 0
    /\ amount = 0
    /\ returned = None
    /\ stages = [s \in SeriesNames |-> <<>>]
    /\ NoTexts
    /\ call = NoCall
    /\ site = NoSite
    /\ turn = 0

\* ------------------------------------------------------------------------
\* The run of the program: NyaaMission.refresh then NyaaMission.update
\* ------------------------------------------------------------------------
\* set_transmission has run set_token, which returned with or without a
\* token
Init ==
    /\ Constructed("refresh")
    /\ idx = 1
    /\ \E response \in Statuses :
          /\ set_token(NoToken, response).err = ""
          /\ token = set_token(NoToken, response).token

cur == SeriesList[idx]

\* torrents = self.transmission.get_all_torrents()
GetAllTorrents ==
    /\ pc = "refresh"
    /\ \E ok \in BOOLEAN :
          IF ok /\ token_required(token, Done).err = ""
          THEN /\ torrents' \in TorrentLists
               /\ pc' = "clear"
               /\ err' = ""
          ELSE /\ torrents' = torrents
               /\ pc' = "failed"
               /\ err' = "TransmissionConnectorError"
    /\ UNCHANGED <<entries, config, texts, connector, prober, idx, files, queries, requests,
                   answers, ncalls, locals, stages>>

\* series.entries = []
RefreshClear ==
    /\ pc = "clear"
    /\ entries' = [entries EXCEPT ![cur] = <<>>]
    /\ pc' = IF skip_directory_check THEN "transmission" ELSE "directory"
    /\ UNCHANGED <<config, texts, connector, prober, torrents, idx, err, files, queries,
                   requests, answers, ncalls, locals, stages>>

\* variant: an exception of the scan is caught and the run goes on with the
\* next series
RefreshDirectory_caught ==
    /\ pc = "directory"
    /\ \E d \in Disks(cur) :
          LET res == set_entries_from_directory(cur, entries[cur], d.isdir,
                                                d.listing)
          IN  /\ entries' = [entries EXCEPT ![cur] = res.entries]
              /\ files' = IF d.isdir THEN Glob(cur, d.listing) ELSE <<>>
              /\ err' = res.err
              /\ IF res.err = "" THEN pc' = "transmission" /\ idx' = idx
                 ELSE IF idx < Len(SeriesList)
                 THEN pc' = "clear" /\ idx' = idx + 1
                 ELSE pc' = "refreshed" /\ idx' = idx
    /\ stages' = [stages EXCEPT ![cur] = Append(@, "directory")]
    /\ UNCHANGED <<config, texts, connector, prober, torrents, queries, requests, answers, ncalls,
                   locals>>

\* series.set_entries_from_directory(); nothing in refresh catches what it
\* raises
RefreshDirectory ==
    /\ pc = "directory"
    /\ \E d \in Disks(cur) :
          LET res == set_entries_from_directory(cur, entries[cur], d.isdir,
                                                d.listing)
          IN  /\ entries' = [entries EXCEPT ![cur] = res.entries]
              /\ files' = IF d.isdir THEN Glob(cur, d.listing) ELSE <<>>
              /\ err' = res.err
              /\ pc' = IF res.err = "" THEN "transmission" ELSE "failed"
    /\ stages' = [stages EXCEPT ![cur] = Append(@, "directory")]
    /\ UNCHANGED <<config, texts, connector, prober, torrents, idx, queries, requests, answers, ncalls,
                   locals>>

\* variant: refresh returns after its first series
RefreshTransmission_returning ==
    /\ pc = "transmission"
    /\ entries' = [entries EXCEPT
                      ![cur] = set_entries_from_transmission(cur, entries[cur],
                                                             torrents)]
    /\ pc' = "refreshed"
    /\ idx' = idx
    /\ stages' = [stages EXCEPT ![cur] = Append(@, "transmission")]
    /\ UNCHANGED <<config, texts, connector, prober, torrents, err, files, queries, requests,
                   answers, ncalls, locals>>

\* series.set_entries_from_transmission(torrents), then the next series or
\* the return of refresh
RefreshTransmission ==
    /\ pc = "transmission"
    /\ entries' = [entries EXCEPT
                      ![cur] = set_entries_from_transmission(cur, entries[cur],
                                                             torrents)]
    /\ IF idx < Len(SeriesList)
       THEN pc' = "clear" /\ idx' = idx + 1
       ELSE pc' = "refreshed" /\ idx' = idx
    /\ stages' = [stages EXCEPT ![cur] = Append(@, "transmission")]
    /\ UNCHANGED <<config, texts, connector, prober, torrents, err, files, queries, requests,
                   answers, ncalls, locals>>

\* refresh returns and update starts its loop
UpdateStart ==
    /\ pc = "refreshed"
    /\ pc' = "probe"
    /\ idx' = 1
    /\ torrents' = None
    /\ UNCHANGED <<entries, config, texts, connector, prober, err, files, queries, requests,
                   answers, ncalls, locals, stages>>

\* old_max = series.max_number, then
\* series.set_new_entries_from_nyaa(self.nyaa)
UpdateProbe ==
    /\ pc = "probe"
    /\ old_max' = max_number(entries[cur])
    /\ \E r \in Resolvers :
          LET res == set_new_entries_from_nyaa(cur, entries[cur],
                                               max_ahead[cur], r)
          IN  /\ entries' = [entries EXCEPT ![cur] = res.entries]
              /\ queries' = res.queries
              /\ err' = res.err
              /\ pc' = IF res.err = "" THEN "download" ELSE "failed"
    /\ stages' = [stages EXCEPT ![cur] = Append(@, "probe")]
    /\ UNCHANGED <<config, texts, connector, prober, torrents, idx, files, requests, answers, ncalls,
                   amount, returned>>

\* series.download_new_entries(self.nyaa, self.transmission, self.dry_run),
\* amount = new_max - old_max, then the next series or the end of update
UpdateDownload ==
    /\ pc = "download"
    /\ \E a \in AnswerSeqs(entries[cur], dry_run) :
          LET res == download_new_entries(cur, entries[cur], dry_run, a)
          IN  /\ entries' = [entries EXCEPT ![cur] = res.entries]
              /\ requests' = res.requests
              /\ answers' = SubSeq(a, 1, Len(res.requests))
              /\ err' = res.err
              /\ returned' = IF res.err = "" THEN res.returned ELSE returned
              /\ amount' = IF res.err = ""
                           THEN new_amount(max_number(res.entries), old_max)
                           ELSE amount
              /\ IF res.err # "" THEN pc' = "failed" /\ idx' = idx
                 ELSE IF idx < Len(SeriesList)
                 THEN pc' = "probe" /\ idx' = idx + 1
                 ELSE pc' = "done" /\ idx' = idx
    /\ stages' = [stages EXCEPT ![cur] = Append(@, "download")]
    /\ UNCHANGED <<config, texts, connector, prober, torrents, files, queries, ncalls, old_max>>

Next ==
    \/ GetAllTorrents
    \/ RefreshClear
    \/ RefreshDirectory
    \/ RefreshTransmission
    \/ UpdateStart
    \/ UpdateProbe
    \/ UpdateDownload

Spec == Init /\ [][Next]_vars

\* ------------------------------------------------------------------------
\* The Series methods called in any order by any caller
\* ------------------------------------------------------------------------
\* idx is the series the calls are made on
InitCalls ==
    /\ Constructed("calls")
    /\ token = Token
    /\ idx \in 1..Len(SeriesList)
    /\ ~skip_directory_check

\* the logs of the run are not kept for these calls
logs == <<torrents, files, queries, requests, answers, locals, stages>>

CallDirectory(s) ==
    /\ pc = "calls"
    /\ ncalls < MaxCalls
    /\ ncalls' = ncalls + 1
    /\ \E d \in Disks(s) :
          LET res == set_entries_from_directory(s, entries[s], d.isdir,
                                                d.listing)
          IN  /\ entries' = [entries EXCEPT ![s] = res.entries]
              /\ err' = res.err
    /\ UNCHANGED <<config, texts, connector, prober, pc, idx, logs>>

CallTransmission(s) ==
    /\ pc = "calls"
    /\ ncalls < MaxCalls
    /\ ncalls' = ncalls + 1
    /\ \E t \in TorrentLists \cup {[none |-> FALSE, names |-> <<>>]} :
          entries' = [entries EXCEPT
                         ![s] = set_entries_from_transmission(s, entries[s], t)]
    /\ err' = ""
    /\ UNCHANGED <<config, texts, connector, prober, pc, idx, logs>>

CallProbe(s) ==
    /\ pc = "calls"
    /\ ncalls < MaxCalls
    /\ ncalls' = ncalls + 1
    /\ \E r \in Resolvers :
          LET res == set_new_entries_from_nyaa(s, entries[s], max_ahead[s], r)
          IN  /\ entries' = [entries EXCEPT ![s] = res.entries]
              /\ err' = res.err
    /\ UNCHANGED <<config, texts, connector, prober, pc, idx, logs>>

CallDownload(s) ==
    /\ pc = "calls"
    /\ ncalls < MaxCalls
    /\ ncalls' = ncalls + 1
    /\ \E a \in AnswerSeqs(entries[s], dry_run) :
          LET res == download_new_entries(s, entries[s], dry_run, a)
          IN  /\ entries' = [entries EXCEPT ![s] = res.entries]
              /\ err' = res.err
    /\ UNCHANGED <<config, texts, connector, prober, pc, idx, logs>>

NextCalls ==
    \/ CallDirectory(cur)
    \/ CallTransmission(cur)
    \/ CallProbe(cur)
    \/ CallDownload(cur)

SpecCalls == InitCalls /\ [][NextCalls]_vars

\* ------------------------------------------------------------------------
\* A Series taken alone: its construction, the name it searches for an
\* episode and the number it reads back from the episode's file name
\* ------------------------------------------------------------------------
InitSeries ==
    /\ entries = [s \in SeriesNames |-> <<>>]
    /\ max_ahead = [s \in SeriesNames |-> 5]
    /\ dry_run = FALSE
    /\ skip_directory_check = FALSE
    /\ torrents = None
    /\ pc = "new"
    /\ idx = 1
    /\ err = ""
    /\ files = <<>>
    /\ queries = <<>>
    /\ requests = <<>>
    /\ answers = <<>>
    /\ ncalls = 0
    /\ old_max = 0
    /\ amount = 0
    /\ returned = None
    /\ stages = [s \in SeriesNames |-> <<>>]
    /\ token = NoToken
    /\ call = NoCall
    /\ site = NoSite
    /\ turn = 0
    /\ options \in [pattern : Templates, number_format : NumberFormats,
                     max_ahead : MaxAheadOptions]
    /\ sample \in [number : Numbers, variation : Variations,
                    garbage : Garbages]
    /\ made = NotMade
    /\ query = <<>>
    /\ extracted = NotExtracted

runs == <<entries, config, torrents, idx, err, files, queries, requests,
          answers, ncalls, locals, stages, connector, prober>>

\* Series(**options)
SeriesInit ==
    /\ pc = "new"
    /\ made' = Series_init(options.pattern, options.number_format,
                           options.max_ahead)
    /\ pc' = IF made'.err = "" THEN "made" ELSE "failed"
    /\ UNCHANGED <<runs, options, sample, query, extracted>>

\* the name searched for the sample's number
FormatQuery ==
    /\ pc = "made"
    /\ query' = FormatName(made.file_pattern_format, made.number_format,
                           sample.number)
    /\ pc' = "named"
    /\ UNCHANGED <<runs, options, sample, made, extracted>>

\* the number read from the file name the sample has under this pattern
ExtractNumber ==
    /\ pc = "named"
    /\ extracted' = extract(made.file_pattern,
                            format(made.file_pattern_format,
                                   made.number_format, sample.number,
                                   sample.variation, sample.garbage))
    /\ pc' = "extracted"
    /\ UNCHANGED <<runs, options, sample, made, query>>

NextSeries ==
    \/ SeriesInit
    \/ FormatQuery
    \/ ExtractNumber

SpecSeries == InitSeries /\ [][NextSeries]_vars

\* ------------------------------------------------------------------------
\* A TransmissionConnector taken alone: its methods called in any order
\* ------------------------------------------------------------------------
InitConnector ==
    /\ Constructed("connector")
    /\ idx = 1
    /\ max_ahead["s1"] = 1
    /\ ~dry_run
    /\ ~skip_directory_check
    /\ token = NoToken

others == <<entries, config, texts, prober, torrents, pc, idx, err, files,
            queries, requests, answers, locals, stages>>

ConnectorSetToken ==
    /\ pc = "connector"
    /\ ncalls < MaxCalls
    /\ ncalls' = ncalls + 1
    /\ \E response \in Statuses :
          LET res == set_token(token, response)
          IN  /\ token' = res.token
              /\ call' = [NoCall EXCEPT !.method = "set_token",
                                        !.token = token,
                                        !.err = res.err,
                                        !.message = res.message,
                                        !.posted = TRUE]
    /\ UNCHANGED others

ConnectorAddTorrent ==
    /\ pc = "connector"
    /\ ncalls < MaxCalls
    /\ ncalls' = ncalls + 1
    /\ \E answer \in Answers : \E s \in SeriesNames :
       \E number \in 1..MaxUpstream :
          call' = Called("add_torrent", directory_server(s),
                         "t" \o ToString(number), token,
                         token_required(token, add_torrent_body(answer)))
    /\ UNCHANGED <<others, token>>

ConnectorGetAllTorrents ==
    /\ pc = "connector"
    /\ ncalls < MaxCalls
    /\ ncalls' = ncalls + 1
    /\ \E ok \in BOOLEAN : \E list \in TorrentLists :
          call' = Called("get_all_torrents", <<>>, "", token,
                         token_required(token,
                                        get_all_torrents_body(ok, list)))
    /\ UNCHANGED <<others, token>>

NextConnector ==
    \/ ConnectorSetToken
    \/ ConnectorAddTorrent
    \/ ConnectorGetAllTorrents

SpecConnector == InitConnector /\ [][NextConnector]_vars

\* ------------------------------------------------------------------------
\* set_new_entries_from_nyaa taken alone, one turn of its while loop at a
\* time; the loop is followed for MaxTurns turns at most
\* ------------------------------------------------------------------------
InitProbe ==
    /\ entries \in {f \in [SeriesNames -> {<<>>, <<SeriesEntry(3, A03, TRUE,
                                                               FALSE, "")>>}] :
                        f["s2"] = <<>>}
    /\ max_ahead \in {f \in [SeriesNames -> MaxAheadValues \cup {5}] :
                        /\ f["s1"] \in MaxAheadValues
                        /\ f["s2"] = 5}
    /\ dry_run = FALSE
    /\ skip_directory_check = FALSE
    /\ torrents = None
    /\ pc = "loop"
    /\ idx = 1
    /\ err = ""
    /\ files = <<>>
    /\ queries = <<>>
    /\ requests = <<>>
    /\ answers = <<>>
    /\ ncalls = 0
    /\ old_max = max_number(entries[cur])
    /\ amount = 0
    /\ returned = None
    /\ stages = [s \in SeriesNames |-> <<>>]
    /\ NoTexts
    /\ token = Token
    /\ call = NoCall
    /\ site \in Sites
    /\ turn = 0

\* one evaluation of 'while condition_fun(i)' and of the body of the loop
ProbeTurn ==
    /\ pc = "loop"
    /\ turn < MaxTurns \/ ~condition_fun(max_ahead[cur], turn)
    /\ IF ~condition_fun(max_ahead[cur], turn)
       THEN pc' = "returned" /\ UNCHANGED <<entries, err, turn>>
       ELSE LET number == old_max + turn + 1
                name == FormatName(file_pattern_format(cur),
                                   number_format(cur), number)
            IN  IF ~site.ok
                THEN /\ pc' = "raised"
                     /\ err' = "NyaaConnectorError"
                     /\ UNCHANGED <<entries, turn>>
                ELSE IF get_id(site, number) = ""
                THEN pc' = "returned" /\ UNCHANGED <<entries, err, turn>>
                ELSE /\ entries' = [entries EXCEPT ![cur] =
                                       Append(@, SeriesEntry(number, name,
                                                  FALSE, FALSE,
                                                  get_id(site, number)))]
                     /\ turn' = turn + 1
                     /\ UNCHANGED <<pc, err>>
    /\ UNCHANGED <<config, texts, connector, torrents, idx, files, queries,
                   requests, answers, ncalls, locals, stages, site>>

NextProbe == ProbeTurn

\* the program is alone in its process: a loop that can take a turn takes it
SpecProbe == InitProbe /\ [][NextProbe]_vars /\ WF_vars(NextProbe)

\* ------------------------------------------------------------------------
\* Properties
\* ------------------------------------------------------------------------
Range(q) == {q[i] : i \in 1..Len(q)}

Owned(e) == e.downloaded /\ ~e.downloading

Queued(e) == e.downloading /\ ~e.downloaded

IsPending(e) == ~e.downloaded /\ ~e.downloading

\* C1: whatever sequence of directory scans, torrent-list scans, probes and
\* downloads was made on a series, no two of its entries have the same file
\* name.
FilenameUniqueness ==
    \A s \in SeriesNames : \A i, j \in 1..Len(entries[s]) :
        i # j => entries[s][i].file_name # entries[s][j].file_name

\* a series holding an owned, a listed and a probed entry after at least
\* three calls
FilenameUniquenessWitness ==
    /\ pc = "calls"
    /\ ncalls >= 3
    /\ \E i, j, k \in 1..Len(entries[cur]) :
          /\ Owned(entries[cur][i])
          /\ Queued(entries[cur][j]) /\ entries[cur][j].tid = ""
          /\ entries[cur][k].tid # ""

\* C2: no entry ever has the downloaded and the downloading flag both set,
\* so each entry is exactly one of owned, queued and pending.
StatusExclusivity ==
    \A s \in SeriesNames : \A i \in 1..Len(entries[s]) :
        ~(entries[s][i].downloaded /\ entries[s][i].downloading)

\* a download has queued a probed entry of a series that also owns a file
StatusExclusivityWitness ==
    /\ pc = "calls"
    /\ \E i, j \in 1..Len(entries[cur]) :
          /\ Owned(entries[cur][i])
          /\ Queued(entries[cur][j]) /\ entries[cur][j].tid # ""

\* after is before, possibly longer, each old entry kept in place and
\* unchanged or turned from pending to queued
Forward(before, after) ==
    /\ Len(after) >= Len(before)
    /\ \A i \in 1..Len(before) :
          \/ after[i] = before[i]
          \/ /\ IsPending(before[i])
             /\ after[i] = [before[i] EXCEPT !.downloading = TRUE]

\* C3: apart from the clearing of a series' list at the start of its pass,
\* no step of the run removes an entry, and the only change to an entry is
\* from pending to queued.
ForwardOnly ==
    [][\A s \in SeriesNames :
          \/ pc = "clear" /\ s = cur
          \/ Forward(entries[s], entries'[s])]_vars

\* the run ended with a series holding an owned entry and a probed entry
\* that the download queued
ForwardOnlyWitness ==
    /\ pc = "done"
    /\ \E s \in SeriesNames : \E i, j \in 1..Len(entries[s]) :
          /\ Owned(entries[s][i])
          /\ Queued(entries[s][j]) /\ entries[s][j].tid # ""

\* the series whose refresh has just been completed
JustRefreshed ==
    IF pc = "refreshed" THEN {SeriesList[idx]}
    ELSE IF pc = "clear" /\ idx > 1 THEN {SeriesList[idx - 1]}
    ELSE {}

\* C4: a file name found by the directory scan and also listed by the
\* Transmission server has, once the series is refreshed, exactly one entry
\* and that entry is owned.
SourcePriority ==
    \A s \in JustRefreshed : \A f \in Range(files) \cap Range(torrents.names) :
        /\ Cardinality({i \in 1..Len(entries[s]) :
                            entries[s][i].file_name = f}) = 1
        /\ \A i \in 1..Len(entries[s]) :
              entries[s][i].file_name = f => Owned(entries[s][i])

\* a refreshed series with a name both on disk and in the torrent list
SourcePriorityWitness ==
    /\ JustRefreshed # {}
    /\ Range(files) \cap Range(torrents.names) # {}
    /\ \A s \in JustRefreshed : Len(entries[s]) >= 2

\* the entries of a series that a probe added
Probed(s) == {i \in 1..Len(entries[s]) : entries[s][i].tid # ""}

\* the highest number among some entries, zero if there is none
Highest(ents) ==
    IF ents = <<>> THEN 0
    ELSE CHOOSE m \in {ents[i].number : i \in 1..Len(ents)} :
            \A i \in 1..Len(ents) : ents[i].number <= m

\* C5: a probe without lookahead bound that starts at maximum m and gets an
\* id for m+1..m+k and none for m+k+1 asks exactly m+1, ..., m+k+1 in that
\* order and appends exactly the k pending entries m+1..m+k in that order.
ProbeStoppingRule ==
    [][(pc = "probe" /\ max_ahead[cur] <= 0 /\ err' = "") =>
          LET before == entries[cur]
              after == entries'[cur]
              m == Highest(before)
              k == Len(queries') - 1
          IN  /\ k >= 0
              /\ \A i \in 1..(k + 1) : queries'[i].number = m + i
              /\ \A i \in 1..k : queries'[i].tid # ""
              /\ queries'[k + 1].tid = ""
              /\ Len(after) = Len(before) + k
              /\ SubSeq(after, 1, Len(before)) = before
              /\ \A i \in 1..k :
                    /\ after[Len(before) + i].number = m + i
                    /\ after[Len(before) + i].tid = queries'[i].tid
                    /\ IsPending(after[Len(before) + i])]_vars

\* an unbounded probe of a series with known entries found two episodes
\* and stopped at the third candidate
ProbeStoppingRuleWitness ==
    /\ pc = "download"
    /\ max_ahead[cur] <= 0
    /\ Len(queries) = 3
    /\ queries[3].tid = ""
    /\ Cardinality(Probed(cur)) = 2
    /\ Len(entries[cur]) > 2

\* the probe of the current series has just ended
AfterProbe == pc = "download" \/ (pc = "failed" /\ err = "NyaaConnectorError")

\* C6 as stated: with a lookahead L >= 0 a probe asks at most L candidates
\* and appends at most L entries.
ProbeLookaheadBoundFromZero ==
    (AfterProbe /\ max_ahead[cur] >= 0) =>
        /\ Len(queries) <= max_ahead[cur]
        /\ Cardinality(Probed(cur)) <= max_ahead[cur]

\* C6 amended: with a lookahead L >= 1 a probe asks at most L candidates and
\* appends at most L entries; with a lookahead of 0 or less (the value 'all'
\* becomes -1) there is no bound and only a miss ends the probe.
ProbeLookaheadBound ==
    /\ (AfterProbe /\ max_ahead[cur] >= 1) =>
          /\ Len(queries) <= max_ahead[cur]
          /\ Cardinality(Probed(cur)) <= max_ahead[cur]
    /\ (pc = "download" /\ max_ahead[cur] <= 0) =>
          /\ queries # <<>>
          /\ queries[Len(queries)].tid = ""

\* a probe with lookahead 2 stopped after two candidates that were both found
ProbeLookaheadBoundWitness ==
    /\ pc = "download"
    /\ max_ahead[cur] = 2
    /\ Len(queries) = 2
    /\ \A i \in 1..Len(queries) : queries[i].tid # ""
    /\ Cardinality(Probed(cur)) = 2

\* C7: every number a probe asks for, and every number it adds, is above
\* the number of every entry the series held when the probe started.
ProbeAnchor ==
    [][pc = "probe" =>
          /\ \A i \in 1..Len(queries') :
                /\ queries'[i].number > 0
                /\ \A j \in 1..Len(entries[cur]) :
                      queries'[i].number > entries[cur][j].number
          /\ \A i \in (Len(entries[cur]) + 1)..Len(entries'[cur]) :
                \A j \in 1..Len(entries[cur]) :
                    entries'[cur][i].number > entries[cur][j].number]_vars

\* a series knowing episodes 1 and 3 but not 2 was probed and got an entry
ProbeAnchorWitness ==
    /\ pc = "download"
    /\ \E i, j \in 1..Len(entries[cur]) :
          /\ entries[cur][i].number = 1 /\ entries[cur][i].tid = ""
          /\ entries[cur][j].number = 3 /\ entries[cur][j].tid = ""
    /\ \A i \in 1..Len(entries[cur]) : entries[cur][i].number # 2
    /\ Probed(cur) # {}

\* C8: when a download that is not a dry run completes, one request was
\* sent for each pending entry, in order, and an entry is queued exactly if
\* it was queued before or was pending and its request was answered
\* 'added'; nothing else changed.
ResolvePendingOutcome ==
    [][(pc = "download" /\ ~dry_run /\ err' = "") =>
          LET before == entries[cur]
              after == entries'[cur]
              P == {i \in 1..Len(before) : IsPending(before[i])}
              rank(i) == Cardinality({j \in P : j <= i})
          IN  /\ Len(after) = Len(before)
              /\ Len(requests') = Cardinality(P)
              /\ Len(answers') = Cardinality(P)
              /\ \A i \in P :
                    /\ requests'[rank(i)].number = before[i].number
                    /\ requests'[rank(i)].tid = before[i].tid
              /\ \A i \in 1..Len(before) :
                    /\ Queued(after[i]) <=>
                          \/ Queued(before[i])
                          \/ i \in P /\ answers'[rank(i)] = "added"
                    /\ (i \in P /\ answers'[rank(i)] = "rejected")
                          => after[i] = before[i]
                    /\ [after[i] EXCEPT !.downloading = FALSE]
                          = [before[i] EXCEPT !.downloading = FALSE]]_vars

\* a completed download in which a request was rejected and the next one
\* accepted
ResolvePendingOutcomeWitness ==
    /\ pc \in {"probe", "done"}
    /\ ~dry_run
    /\ err = ""
    /\ \E k \in 1..(Len(answers) - 1) :
          answers[k] = "rejected" /\ answers[k + 1] = "added"

\* C9 as stated: after a torrent-add request that the server answered with
\* an error status the run goes on, and every probed entry of the series
\* has had its request.
RequestFailureIsolation ==
    (\E k \in 1..Len(answers) : answers[k] = "error") =>
        /\ pc # "failed"
        /\ Len(requests) = Cardinality(Probed(cur))

\* C9 amended: a torrent-add request answered with an error status raises
\* TransmissionConnectorError and ends the run: it is the last request
\* sent, the entry it was for and the pending entries after it stay pending
\* and unrequested, and the series after this one are not probed.  Entries
\* accepted before it stay queued.
RequestFailureEndsRun ==
    (\E k \in 1..Len(answers) : answers[k] = "error") =>
        LET n == Len(answers)
            rank(i) == Cardinality({j \in Probed(cur) : j <= i})
        IN  /\ pc = "failed"
            /\ err = "TransmissionConnectorError"
            /\ Len(requests) = n
            /\ answers[n] = "error"
            /\ \A k \in 1..(n - 1) : answers[k] # "error"
            /\ \A i \in Probed(cur) :
                  IF rank(i) < n
                  THEN Queued(entries[cur][i]) <=> answers[rank(i)] = "added"
                  ELSE IsPending(entries[cur][i])
            /\ \A j \in (idx + 1)..Len(SeriesList) : Probed(SeriesList[j]) = {}

\* the second request of the first series failed while a third entry was
\* pending and a series was still to come
RequestFailureEndsRunWitness ==
    /\ pc = "failed"
    /\ idx = 1
    /\ Len(SeriesList) > 1
    /\ Len(answers) = 2
    /\ answers[1] = "added"
    /\ answers[2] = "error"
    /\ Cardinality(Probed(cur)) = 3

\* C10: a dry-run download sends no request to the Transmission server and
\* marks every entry that was pending, and no other, as downloading.
SimulateMode ==
    [][(pc = "download" /\ dry_run) =>
          LET before == entries[cur]
              after == entries'[cur]
          IN  /\ requests' = <<>>
              /\ answers' = <<>>
              /\ err' = ""
              /\ Len(after) = Len(before)
              /\ \A i \in 1..Len(before) :
                    after[i] = IF IsPending(before[i])
                               THEN [before[i] EXCEPT !.downloading = TRUE]
                               ELSE before[i]]_vars

\* a dry run has gone through a series with an owned and two probed entries
SimulateModeWitness ==
    /\ dry_run
    /\ pc \in {"probe", "done"}
    /\ requests = <<>>
    /\ \E s \in SeriesNames :
          /\ Cardinality(Probed(s)) >= 2
          /\ \A i \in Probed(s) : Queued(entries[s][i])
          /\ \E i \in 1..Len(entries[s]) : Owned(entries[s][i])

\* the entries of the current series a download step takes from pending to
\* queued
Transitioned ==
    {i \in 1..Len(entries[cur]) :
        /\ IsPending(entries[cur][i])
        /\ Queued(entries'[cur][i])}

\* C11 as stated: download_new_entries returns the number of entries it
\* took from pending to queued in that call.
DownloadReturnsTransitions ==
    [][(pc = "download" /\ pc' # "failed") =>
          /\ ~returned'.none
          /\ returned'.names = Cardinality(Transitioned)]_vars

\* C11 amended: download_new_entries returns nothing.  The count update
\* reports for a series is the rise of its highest number over the pass,
\* which is the number of entries the probe appended; the number of
\* entries the call took from pending to queued never exceeds it and
\* equals it in a dry run.
UpdateReportsProbed ==
    [][(pc = "download" /\ pc' # "failed") =>
          /\ returned' = None
          /\ amount' = Cardinality(Probed(cur))
          /\ Cardinality(Transitioned) <= amount'
          /\ dry_run => Cardinality(Transitioned) = amount']_vars

\* the run ended after the last series, which held an owned entry, had two
\* entries probed of which the server accepted one
UpdateReportsProbedWitness ==
    /\ pc = "done"
    /\ ~dry_run
    /\ returned = None
    /\ amount = 2
    /\ old_max > 0
    /\ Cardinality({i \in Probed(cur) : Queued(entries[cur][i])}) = 1

\* the methods the run calls on a series, in the order of the code
FullPass == <<"directory", "transmission", "probe", "download">>

\* the run is over
Ended == pc \in {"done", "failed"}

\* C12 as stated: when the directory of one series does not exist, the
\* scan raises SeriesError for that series, and every other series is
\* still taken through the directory scan, the torrent scan, the probe and
\* the download by the time the run is over.
StorageNotFoundIsolation ==
    (Ended /\ err = "SeriesError") =>
        \A s \in SeriesNames \ {cur} : stages[s] = FullPass

\* C12 amended: when the directory of one series does not exist, the scan
\* raises SeriesError and the run ends there.  The series holds no entry,
\* the series before it have been scanned (directory and torrents) but no
\* series is probed or sent to the server, and the series after it have
\* not been touched.
StorageNotFoundEndsRun ==
    err = "SeriesError" =>
        /\ pc = "failed"
        /\ entries[cur] = <<>>
        /\ stages[cur] = <<"directory">>
        /\ requests = <<>>
        /\ queries = <<>>
        /\ \A j \in 1..(idx - 1) :
              /\ stages[SeriesList[j]] = <<"directory", "transmission">>
              /\ Probed(SeriesList[j]) = {}
        /\ \A j \in (idx + 1)..Len(SeriesList) :
              /\ stages[SeriesList[j]] = <<>>
              /\ entries[SeriesList[j]] = <<>>

\* the directory of the second series is missing, after the first series
\* got an owned and a queued entry from its scans
StorageNotFoundEndsRunWitness ==
    /\ err = "SeriesError"
    /\ idx = 2
    /\ \E i, j \in 1..Len(entries["s1"]) :
          Owned(entries["s1"][i]) /\ Queued(entries["s1"][j])

\* C13: a directory scan whose glob returns files raises nothing, whether
\* or not their names match the extraction expression, and leaves exactly
\* one owned entry per matching file and none for the others.
LocalExtractionSkip ==
    [][(pc = "directory" /\ files' # <<>>) =>
          LET matching == {f \in Range(files') :
                              found_in_directory[cur][f] # <<>>}
          IN  /\ err' = ""
              /\ {e.file_name : e \in Range(entries'[cur])} = matching
              /\ \A e \in Range(entries'[cur]) : Owned(e)]_vars

\* C14: whatever get_all_torrents returned, None included, the torrent
\* scan of a series raises nothing, leaves the entries the series had as
\* they were, and appends exactly one queued entry for each distinct
\* listed name that matches the expression of the series and was not yet
\* in the list, and none for any other name.
QueuePopulation ==
    [][pc = "transmission" =>
          LET before == entries[cur]
              after == entries'[cur]
              listed == IF torrents.none THEN {} ELSE Range(torrents.names)
              fresh == {f \in listed :
                           /\ found_in_torrents[cur][f] # <<>>
                           /\ \A e \in Range(before) : e.file_name # f}
              added == (Len(before) + 1)..Len(after)
          IN  /\ err' = ""
              /\ pc' # "failed"
              /\ Len(after) = Len(before) + Cardinality(fresh)
              /\ SubSeq(after, 1, Len(before)) = before
              /\ {after[i].file_name : i \in added} = fresh
              /\ \A i \in added :
                    /\ Queued(after[i])
                    /\ after[i].tid = ""
                    /\ after[i].number =
                           int(found_in_torrents[cur][after[i].file_name][1])]_vars

\* the server listed a torrent of another series and then a torrent of the
\* first series, which had one owned entry from its directory: the series
\* ends its refresh with that entry and one queued entry
QueuePopulationWitness ==
    /\ JustRefreshed = {"s1"}
    /\ ~torrents.none
    /\ torrents.names = <<B01, A02>>
    /\ Len(entries["s1"]) = 2
    /\ Owned(entries["s1"][1])
    /\ Queued(entries["s1"][2])
    /\ entries["s1"][2].file_name = A02

\* C15: in every run and for every series, the methods called on the
\* series so far are a beginning of: directory scan (left out when the
\* directory check is skipped), torrent scan, probe, download; so each one
\* is called only after the ones before it have returned.
StageOrdering ==
    \A s \in SeriesNames :
        LET pass == IF skip_directory_check THEN Tail(FullPass) ELSE FullPass
        IN  /\ Len(stages[s]) <= Len(pass)
            /\ stages[s] = SubSeq(pass, 1, Len(stages[s]))

\* a run with the directory check went through the four methods for every
\* series
StageOrderingWitness ==
    /\ pc = "done"
    /\ ~skip_directory_check
    /\ \A s \in SeriesNames : stages[s] = FullPass

\* the pattern given to the constructor has a number field
HasNumber == \E i \in 1..Len(options.pattern) : options.pattern[i] = "{number}"

\* C16: constructing a series from a pattern without '{number}' fails with
\* the configuration error and makes no series.
MissingNumberPlaceholder ==
    (pc # "new" /\ ~HasNumber) => (pc = "failed" /\ made.err = "SeriesError")

\* C17: constructing a series whose max_ahead is neither 'all' nor the
\* text of an integer fails with SeriesError and no other error.
NonNumericLookahead ==
    (/\ pc # "new"
     /\ options.max_ahead # ALL
     /\ ~IntOrValueError(options.max_ahead).ok)
        => (pc = "failed" /\ made.err = "SeriesError")

\* the number is written with zero fill, so the file name of the sample is
\* the pattern with the digits of the number, a tag and a filler
ZeroFill == options.number_format[1] = "0"

\* C18 as stated: for every pattern with a number field and every number
\* n, the number read from a file name that is the pattern filled with n,
\* with any filler and with or without a variation tag, is n.
ExtractionRoundTrip ==
    (pc = "extracted" /\ HasNumber /\ ZeroFill) =>
        extracted = [err |-> "", number |-> sample.number]

\* a text without digit
NoDigit(text) == \A i \in 1..Len(text) : text[i] \notin Digits

\* no tag, or the tag the expression knows: "v" and digits
IsVersion(text) ==
    text # <<>> => /\ Len(text) > 1
                   /\ text[1] = "v"
                   /\ \A i \in 2..Len(text) : text[i] \in Digits

\* C18 amended: for every pattern made of literals, one number field and
\* filler fields, and every number n, the number read from a file name
\* that is the pattern filled with the zero-filled digits of n, with a
\* filler that holds no digit and with no variation tag or a tag made of
\* "v" and digits, is n.
ExtractionRoundTripNoDigit ==
    (/\ pc = "extracted"
     /\ HasNumber
     /\ ZeroFill
     /\ NoDigit(sample.garbage)
     /\ IsVersion(sample.variation))
        => extracted = [err |-> "", number |-> sample.number]

\* number 7 was read back from "xA07v2x", the pattern having a filler on
\* both sides
ExtractionRoundTripNoDigitWitness ==
    /\ pc = "extracted"
    /\ options.pattern = <<"{garbage}", "A", "{number}", "{garbage}">>
    /\ options.number_format = <<"0", "2">>
    /\ sample = [number |-> 7, variation |-> <<"v", "2">>, garbage |-> <<"x">>]
    /\ extracted = [err |-> "", number |-> 7]

\* the part of the searched name that stands for the number field, when the
\* rest of the name is the rest of the pattern
NumberPart ==
    LET p == made.file_pattern_format
        k == CHOOSE i \in 1..Len(p) : p[i] = "{number}"
        last == Len(query) - (Len(p) - k)
    IN  IF /\ last >= k
           /\ SubSeq(query, 1, k - 1) = SubSeq(p, 1, k - 1)
           /\ SubSeq(query, last + 1, Len(query)) = SubSeq(p, k + 1, Len(p))
        THEN SubSeq(query, k, last)
        ELSE <<>>

\* text is the decimal writing of n, filled with "0" on the left up to w
\* characters and no further
ZeroPadded(text, w, n) ==
    /\ text # <<>>
    /\ \A i \in 1..Len(text) : text[i] \in Digits
    /\ int(text) = n
    /\ Len(text) >= w
    /\ Len(text) > w => (text[1] # "0" \/ Len(text) = 1)

ResolverFailureVersusMiss ==
    /\ \A i \in 1..Len(queries) :
          ~queries[i].ok => /\ i = Len(queries)
                            /\ pc = "failed"
                            /\ err = "NyaaConnectorError"
    /\ err = "NyaaConnectorError" =>
          queries # <<>> /\ ~queries[Len(queries)].ok
    /\ pc = "download" =>
          /\ err = ""
          /\ \A i \in 1..Len(queries) :
                queries[i].tid = "" => i = Len(queries)

\* the probe of the first series ended on a search that found nothing and
\* its entries were sent to the server; the first request of the probe of
\* the second series failed
ResolverFailureVersusMissWitness ==
    /\ pc = "failed"
    /\ err = "NyaaConnectorError"
    /\ idx = 2
    /\ Probed("s1") # {}
    /\ max_ahead["s1"] <= 0
    /\ Len(queries) = 1
    /\ ~queries[1].ok

\* C21: a download sends its requests for the entries that are pending
\* when it reaches them and for no other, one request for each in the
\* order of the list, up to the request that fails if one does; each
\* request carries the id of its entry and the server directory of the
\* series.
RequestsOnlyPending ==
    [][pc = "download" =>
          LET before == entries[cur]
              pending == {i \in 1..Len(before) : IsPending(before[i])}
              rank(i) == Cardinality({j \in pending : j <= i})
          IN  /\ Len(requests') <= Cardinality(pending)
              /\ \A k \in 1..Len(requests') :
                    \E i \in pending :
                        /\ rank(i) = k
                        /\ requests'[k] =
                               [directory |-> directory_server(cur),
                                tid |-> before[i].tid,
                                number |-> before[i].number]
              /\ \A i \in 1..Len(before) :
                    ~IsPending(before[i]) =>
                        \A k \in 1..Len(requests') :
                            requests'[k].number # before[i].number]_vars

\* the download of the first series, which held an owned entry and an
\* entry queued from the torrent list, sent two requests, one for each of
\* its two probed entries
RequestsOnlyPendingWitness ==
    /\ ~dry_run
    /\ pc = "probe"
    /\ idx = 2
    /\ Len(requests) = 2
    /\ requests[1].tid # requests[2].tid
    /\ Cardinality(Probed("s1")) = 2
    /\ \E i, j \in 1..Len(entries["s1"]) :
          /\ Owned(entries["s1"][i])
          /\ Queued(entries["s1"][j]) /\ entries["s1"][j].tid = ""

\* C22: add_torrent and get_all_torrents called on a connector that holds
\* no token raise TransmissionConnectorError "No connection established"
\* and no request has been posted to the server.
AuthenticationGuard ==
    (call.method \in {"add_torrent", "get_all_torrents"}
        /\ call.token = NoToken) =>
            /\ call.err = "TransmissionConnectorError"
            /\ call.message = "No connection established"
            /\ ~call.posted
            /\ ~call.added
            /\ call.torrents = None

\* add_torrent was called on a connector left without token by an earlier
\* call
AuthenticationGuardWitness ==
    /\ ncalls >= 2
    /\ call.method = "add_torrent"
    /\ call.token = NoToken
    /\ call.err # ""

\* C24: when set_token returns without raising the connector holds a
\* token, and a connector that holds a token never has add_torrent or
\* get_all_torrents stopped by "No connection established".
AuthenticationCompletes ==
    /\ (call.method = "set_token" /\ call.err = "") => token # NoToken
    /\ call.token # NoToken => call.message # "No connection established"

\* C23 as stated: every entry of every series, whether it comes from the
\* directory, from the torrent list or from the probe, has a number of at
\* least 1.
PositiveNumbers ==
    \A s \in SeriesNames : \A e \in Range(entries[s]) : e.number >= 1

\* C23 amended: every entry of every series has a number of at least 0;
\* an entry made by the probe has a number of at least 1, and an entry
\* made from a file or torrent name has the number written in the name,
\* which is 0 for a name such as B00.
NonNegativeNumbers ==
    \A s \in SeriesNames : \A e \in Range(entries[s]) :
        /\ e.number >= 0
        /\ e.tid # "" => e.number >= 1
        /\ e.file_name = B00 => e.number = 0

\* the second series holds the owned entry of the file B00, with number 0,
\* and the entry the probe made for number 1
NonNegativeNumbersWitness ==
    \E i, j \in 1..Len(entries["s2"]) :
        /\ entries["s2"][i].file_name = B00
        /\ Owned(entries["s2"][i])
        /\ entries["s2"][i].number = 0
        /\ entries["s2"][j].tid # ""
        /\ entries["s2"][j].number = 1

\* the probe has returned or raised
Terminated == pc \in {"returned", "raised"}

\* the site fails, or finds nothing for some number above the maximum
Stops ==
    \/ ~site.ok
    \/ \E number \in (old_max + 1)..(old_max + MaxTurns) :
          get_id(site, number) = ""

\* C25: a probe with a positive max_ahead terminates whatever the site
\* answers; a probe without bound terminates when the site fails or finds
\* nothing for some number above the maximum, and never terminates when
\* the site finds a torrent for every number.
ProbeTermination ==
    /\ [](max_ahead[cur] > 0 => <>Terminated)
    /\ []((max_ahead[cur] <= 0 /\ Stops) => <>Terminated)
    /\ []((max_ahead[cur] <= 0 /\ ~Stops) =>
             /\ ~Terminated
             /\ Cardinality(Probed(cur)) = turn)

\* a probe without bound that started above an owned entry numbered 3
\* returned after one entry, at the first number the site found nothing for
ProbeTerminationWitness ==
    /\ pc = "returned"
    /\ max_ahead[cur] = 0 - 1
    /\ old_max = 3
    /\ turn = 1
    /\ Cardinality(Probed(cur)) = 1
    /\ Len(entries[cur]) = 2

====
